---- MODULE Spec2Model ----
\* Model of the generational arena GenVec<T> (src/src/genvec.rs) and of the
\* calls a client makes on it (src/src/main.rs).
EXTENDS Integers, Sequences, FiniteSets, TLC

\* ---------------------------------------------------------------- bounds
MaxSlots == 2      \* most slots the backing vec grows to
MaxGen   == 2      \* highest generation a slot is driven to (u64 in the code)
MaxVal   == 2      \* element values are 1..MaxVal

Values == 1..MaxVal

\* ---------------------------------------------------------------- state
VARIABLES
    vec,        \* GenVec.vec: sequence of GenVecEntry, position i is vec[i+1]
    freelist,   \* GenVec.freelist: stack of slot positions, top is the last
    issued,     \* handles returned by alloc so far (the client's copies)
    freed,      \* handles on which free took effect
    res         \* the last call: operation, handle, outcome, value, sequence

vars == <<vec, freelist, issued, freed, res>>

\* EntryHandle<T>: (generation, index); the type tag is compile-time only.
EntryHandle(generation, index) == [generation |-> generation, index |-> index]

\* GenVecEntry<T>
GenVecEntry(generation, data) == [generation |-> generation, data |-> data]

\* Every handle a GenVec<T> of the same element type and of at most MaxSlots
\* slots can have issued.
Handles == [generation : 0..MaxGen, index : 0..(MaxSlots - 1)]

NoHandle == EntryHandle(0, 0)

\* Outcomes of a call.
Some(v) == [out |-> "Some", val |-> v]
None    == [out |-> "None", val |-> 0]
Panic   == [out |-> "panic", val |-> 0]
Done(tag) == [out |-> tag, val |-> 0]

Result(op, h, r, s) ==
    [op |-> op, h |-> h, out |-> r.out, val |-> r.val, seq |-> s]

\* A panic unwinds out of the client: no further call is made.
Running == res.out # "panic"

\* ---------------------------------------------------------------- helpers
\* self.vec[i] is a bounds-checked index: it panics when i >= len.
InBounds(i) == i < Len(vec)

\* self.vec.get(i)
VecGet(i) == IF i < Len(vec) THEN Some(vec[i + 1].generation) ELSE None

\* ---------------------------------------------------------------- exists
existsNoGeneration(h) ==
    IF VecGet(h.index).out = "Some" THEN TRUE ELSE FALSE

exists(h) ==
    IF VecGet(h.index).out = "Some"
    THEN IF vec[h.index + 1].generation = h.generation THEN TRUE ELSE FALSE
    ELSE FALSE

\* ---------------------------------------------------------------- accessors
index_refNoCheck(h) ==
    IF ~InBounds(h.index) THEN Panic
    ELSE Some(vec[h.index + 1].data)

index_ref(h) ==
    IF ~InBounds(h.index) THEN Panic
    ELSE IF vec[h.index + 1].generation # h.generation THEN Panic
    ELSE Some(vec[h.index + 1].data)

index_mut(h) ==
    IF ~InBounds(h.index) THEN Panic
    ELSE IF vec[h.index + 1].generation # h.generation THEN Panic
    ELSE Some(vec[h.index + 1].data)

index_copy(h) ==
    IF ~InBounds(h.index) THEN Panic
    ELSE IF vec[h.index + 1].generation # h.generation THEN Panic
    ELSE Some(vec[h.index + 1].data)

get_ref(h) ==
    IF ~InBounds(h.index) THEN Panic
    ELSE IF vec[h.index + 1].generation # h.generation THEN None
    ELSE Some(vec[h.index + 1].data)

get_mut(h) ==
    IF ~InBounds(h.index) THEN Panic
    ELSE IF vec[h.index + 1].generation # h.generation THEN None
    ELSE Some(vec[h.index + 1].data)

get_copyNoCheck(h) ==
    IF ~InBounds(h.index) THEN Panic
    ELSE Some(vec[h.index + 1].data)

get_copy(h) ==
    IF ~InBounds(h.index) THEN Panic
    ELSE IF vec[h.index + 1].generation # h.generation THEN None
    ELSE Some(vec[h.index + 1].data)

\* ---------------------------------------------------------------- iteration
\* filter_map(|item| ((item.generation & 1) == 0).then_some(&item.data))
RECURSIVE filter_map(_)
filter_map(s) ==
    IF s = <<>> THEN <<>>
    ELSE IF (Head(s).generation % 2) = 0
         THEN <<Head(s).data>> \o filter_map(Tail(s))
         ELSE filter_map(Tail(s))

iterAll == [i \in 1..Len(vec) |-> vec[i].data]

iter == filter_map(vec)

iter_mutAll == [i \in 1..Len(vec) |-> vec[i].data]

iter_mut == filter_map(vec)

\* ---------------------------------------------------------------- alloc
\* self.freelist.pop() takes the last element.
PopFront(fl) == 1

PopPosition(fl) == Len(fl)

\* if let Some(index_) = self.freelist.pop()
PopSomeNever(fl) == FALSE

PopSome(fl) == fl # <<>>

\* generation = self.vec[index].generation
ReuseGenerationZero(index) == 0

ReuseGenerationNext(index) == vec[index + 1].generation + 1

ReuseGeneration(index) == vec[index + 1].generation

Alloc(data) ==
    /\ Running
    /\ PopSome(freelist) \/ Len(vec) < MaxSlots
    /\ IF PopSome(freelist)
       THEN LET p     == PopPosition(freelist)
                index == freelist[p]
                generation == ReuseGeneration(index)
            IN  /\ freelist' = [k \in 1..(Len(freelist) - 1) |->
                                   IF k < p THEN freelist[k] ELSE freelist[k + 1]]
                /\ vec' = [vec EXCEPT ![index + 1].data = data]
                /\ issued' = issued \cup {EntryHandle(generation, index)}
                /\ res' = Result("alloc", EntryHandle(generation, index),
                                 Some(data), <<>>)
       ELSE LET index == Len(vec)
                generation == 0
            IN  /\ vec' = Append(vec, GenVecEntry(generation, data))
                /\ freelist' = freelist
                /\ issued' = issued \cup {EntryHandle(generation, index)}
                /\ res' = Result("alloc", EntryHandle(generation, index),
                                 Some(data), <<>>)
    /\ UNCHANGED freed

\* ---------------------------------------------------------------- free
\* el.generation += 1
NextGenerationSame(g) == g

NextGenerationParity(g) == (g + 1) % 2

NextGeneration(g) == g + 1

\* self.freelist.push(h.index)
FreelistPushFront(fl, index) == <<index>> \o fl

FreelistPush(fl, index) == Append(fl, index)

\* if el.generation != h.generation { return; }
FreeMismatchIgnored(el, h) == FALSE

FreeMismatch(el, h) == el.generation # h.generation

\* The two guards after Running bound the model: a slot is freed up to
\* generation MaxGen, and the free list holds at most MaxSlots entries (more
\* need a free through a handle of another arena that names a freed slot).
Free(h) ==
    /\ Running
    /\ InBounds(h.index) => vec[h.index + 1].generation < MaxGen
    /\ exists(h) => Len(freelist) < MaxSlots
    /\ IF ~InBounds(h.index)
       THEN /\ res' = Result("free", h, Panic, <<>>)
            /\ UNCHANGED <<vec, freelist, freed>>
       ELSE IF FreeMismatch(vec[h.index + 1], h)
       THEN /\ res' = Result("free", h, Done("noop"), <<>>)
            /\ UNCHANGED <<vec, freelist, freed>>
       ELSE /\ vec' = [vec EXCEPT ![h.index + 1].generation =
                                      NextGeneration(vec[h.index + 1].generation)]
            /\ freelist' = FreelistPush(freelist, h.index)
            /\ freed' = freed \cup {h}
            /\ res' = Result("free", h, Done("freed"), <<>>)
    /\ UNCHANGED issued

\* ---------------------------------------------------------------- reads
Exists(h) ==
    /\ Running
    /\ res' = Result("exists", h, IF exists(h) THEN Done("true") ELSE Done("false"), <<>>)
    /\ UNCHANGED <<vec, freelist, issued, freed>>

IndexRef(h) ==
    /\ Running
    /\ res' = Result("index_ref", h, index_ref(h), <<>>)
    /\ UNCHANGED <<vec, freelist, issued, freed>>

IndexMut(h) ==
    /\ Running
    /\ res' = Result("index_mut", h, index_mut(h), <<>>)
    /\ UNCHANGED <<vec, freelist, issued, freed>>

IndexCopy(h) ==
    /\ Running
    /\ res' = Result("index_copy", h, index_copy(h), <<>>)
    /\ UNCHANGED <<vec, freelist, issued, freed>>

GetRef(h) ==
    /\ Running
    /\ res' = Result("get_ref", h, get_ref(h), <<>>)
    /\ UNCHANGED <<vec, freelist, issued, freed>>

GetMut(h) ==
    /\ Running
    /\ res' = Result("get_mut", h, get_mut(h), <<>>)
    /\ UNCHANGED <<vec, freelist, issued, freed>>

GetCopy(h) ==
    /\ Running
    /\ res' = Result("get_copy", h, get_copy(h), <<>>)
    /\ UNCHANGED <<vec, freelist, issued, freed>>

Iter ==
    /\ Running
    /\ res' = Result("iter", NoHandle, Done("ok"), iter)
    /\ UNCHANGED <<vec, freelist, issued, freed>>

IterMut ==
    /\ Running
    /\ res' = Result("iter_mut", NoHandle, Done("ok"), iter_mut)
    /\ UNCHANGED <<vec, freelist, issued, freed>>

\* for el in vec.iter_mut() { *el += 1; }
IterMutIncrement ==
    /\ Running
    /\ \A i \in 1..Len(vec) :
          (vec[i].generation % 2) = 0 => vec[i].data < MaxVal
    /\ vec' = [i \in 1..Len(vec) |->
                  IF (vec[i].generation % 2) = 0
                  THEN [vec[i] EXCEPT !.data = @ + 1]
                  ELSE vec[i]]
    /\ res' = Result("iter_mut_incr", NoHandle, Done("ok"), iter_mut)
    /\ UNCHANGED <<freelist, issued, freed>>

\* ---------------------------------------------------------------- specs
\* GenVec::with_capacity: no slots, empty free list.
Init ==
    /\ vec = <<>>
    /\ freelist = <<>>
    /\ issued = {}
    /\ freed = {}
    /\ res = Result("new", NoHandle, Done("ok"), <<>>)

\* The client of main.rs: it passes only handles this arena returned, to
\* alloc, free, exists, the get_ accessors and the iterators.
Next ==
    \/ \E data \in Values : Alloc(data)
    \/ \E h \in issued : Free(h)
    \/ \E h \in issued : Exists(h)
    \/ \E h \in issued : GetRef(h)
    \/ \E h \in issued : GetMut(h)
    \/ \E h \in issued : GetCopy(h)
    \/ Iter
    \/ IterMut
    \/ IterMutIncrement

Spec == Init /\ [][Next]_vars

\* The client passes any handle of the element type, e.g. one returned by
\* another GenVec<T>. This arena stays one slot short of MaxSlots, so that in
\* each of its states some handle names a position beyond its slots.
NextForeign ==
    \/ /\ freelist # <<>> \/ Len(vec) < MaxSlots - 1
       /\ \E data \in Values : Alloc(data)
    \/ \E h \in Handles : Free(h)
    \/ \E h \in Handles : Exists(h)
    \/ \E h \in Handles : IndexRef(h)
    \/ \E h \in Handles : IndexMut(h)
    \/ \E h \in Handles : IndexCopy(h)
    \/ \E h \in Handles : GetRef(h)
    \/ \E h \in Handles : GetMut(h)
    \/ \E h \in Handles : GetCopy(h)
    \/ Iter
    \/ IterMut
    \/ IterMutIncrement

SpecForeign == Init /\ [][NextForeign]_vars

TypeOK ==
    /\ \A i \in 1..Len(vec) : vec[i].generation \in 0..MaxGen /\ vec[i].data \in Values
    /\ Len(vec) <= MaxSlots
    /\ issued \subseteq Handles
    /\ freed \subseteq Handles

\* ================================================================ claims

\* C1 (Freshness): right after alloc(v) returned h, exists(h) is true and
\* get_ref(h), get_mut(h) and get_copy(h) are present with exactly v.
C1_Freshness ==
    res.op = "alloc" =>
        /\ exists(res.h)
        /\ get_ref(res.h) = Some(res.val)
        /\ get_mut(res.h) = Some(res.val)
        /\ get_copy(res.h) = Some(res.val)

\* alloc has just reused a freed slot while another slot exists
C1_Witness ==
    /\ res.op = "alloc"
    /\ res.h.generation > 0
    /\ Len(vec) > 1
    /\ get_ref(res.h) = Some(res.val)

\* C2 (Invalidation): a free(h) called while exists(h) holds leaves
\* exists(h) false and get_ref(h) absent; a copy of h is the same pair.
C2_Invalidation ==
    [][res'.op = "free" =>
          \A h \in {res'.h} :
              (Free(h) /\ exists(h)) =>
                  /\ (~exists(h))'
                  /\ (get_ref(h) = None)']_vars

\* free has just taken effect on an issued handle
C2_Witness ==
    /\ res.op = "free"
    /\ res.out = "freed"
    /\ res.h \in issued
    /\ get_ref(res.h) = None

\* C3 (No cross-generation aliasing): a handle on which free took effect
\* never satisfies exists again and get_ref never returns a value for it,
\* also after its slot has been reused.
C3_PermanentInvalidation ==
    \A h \in freed : ~exists(h) /\ get_ref(h) = None

\* a freed handle whose slot is occupied again by a later, valid handle
C3_Witness ==
    \E h \in freed : \E h2 \in issued :
        /\ h2.index = h.index
        /\ h2 # h
        /\ exists(h2)
        /\ ~exists(h)

\* Values of the slots some issued handle is valid for, by ascending position.
RECURSIVE LiveValuesFrom(_)
LiveValuesFrom(i) ==
    IF i >= Len(vec) THEN <<>>
    ELSE IF \E h \in issued : h.index = i /\ exists(h)
         THEN <<vec[i + 1].data>> \o LiveValuesFrom(i + 1)
         ELSE LiveValuesFrom(i + 1)

LiveValues == LiveValuesFrom(0)

\* C4 (Iteration completeness and exclusion): iter() yields exactly the
\* values of the slots with a currently valid issued handle, in ascending
\* position order, and none of a freed slot.
C4_IterExact ==
    res.op = "iter" => res.seq = LiveValues

NoDuplicates(s) == \A i, j \in 1..Len(s) : i # j => s[i] # s[j]

\* C5 (Double-free safety): free(h) with a generation that differs from the
\* slot's is a no-op on slots and free list; a free that takes effect adds
\* exactly one entry; the free list never holds a position twice.
C5_DoubleFreeSafe ==
    [][/\ NoDuplicates(freelist')
       /\ res'.op = "free" =>
              \A h \in {res'.h} :
                  /\ (Free(h) /\ InBounds(h.index) /\ ~exists(h)) =>
                         UNCHANGED <<vec, freelist>>
                  /\ (Free(h) /\ exists(h)) =>
                         Len(freelist') = Len(freelist) + 1]_vars

\* free has just been called on an already freed handle whose slot was
\* given to a newer handle
C5_Witness ==
    /\ res.op = "free"
    /\ res.out = "noop"
    /\ res.h \in freed
    /\ \E h2 \in issued : h2.index = res.h.index /\ exists(h2)

\* C6 (optional accessors never panic): for a position at or beyond the
\* slot count get_ref, get_mut and get_copy return None.
C6_GetOutOfRangeIsNone ==
    (res.op \in {"get_ref", "get_mut", "get_copy"} /\ ~InBounds(res.h.index))
        => res.out = "None"

\* C7 (exists is total and exact): exists(h) returns for every handle, and
\* returns true iff the position is within the slots and the generations
\* are equal; out of range gives false.
C7_ExistsExact ==
    res.op = "exists" =>
        /\ res.out \in {"true", "false"}
        /\ (res.out = "true") <=>
               (res.h.index < Len(vec)
                  /\ vec[res.h.index + 1].generation = res.h.generation)

\* exists has answered false for a position beyond the slots
C7_Witness ==
    /\ res.op = "exists"
    /\ res.h.index >= Len(vec)
    /\ issued # {}
    /\ res.out = "false"

\* C8 (free never raises): free(h) with a handle that is not valid here,
\* a position beyond the slots included, is a silent no-op.
C8_FreeSilentNoOp ==
    [][res'.op = "free" =>
          \A h \in {res'.h} :
              (Free(h) /\ ~exists(h)) =>
                  /\ res'.out = "noop"
                  /\ UNCHANGED <<vec, freelist>>]_vars

IndexOps == {"index_ref", "index_mut", "index_copy"}

\* C9 (asserting accessors): within the slots, index_ref/index_mut/index_copy
\* return the stored value when the generations are equal and panic when
\* not; for a freed handle they panic while the get_ accessors return None.
C9_IndexAsserts ==
    /\ (res.op \in IndexOps /\ InBounds(res.h.index)) =>
           IF vec[res.h.index + 1].generation = res.h.generation
           THEN res.out = "Some" /\ res.val = vec[res.h.index + 1].data
           ELSE res.out = "panic"
    /\ \A h \in freed :
           /\ index_ref(h) = Panic /\ index_mut(h) = Panic /\ index_copy(h) = Panic
           /\ get_ref(h) = None /\ get_mut(h) = None /\ get_copy(h) = None

\* index_ref has panicked on a freed handle
C9_Witness ==
    /\ res.op = "index_ref"
    /\ res.h \in freed
    /\ res.out = "panic"
    /\ get_ref(res.h) = None

\* C10 (LIFO reuse): with a non-empty free list alloc returns the position
\* freed last among those not yet reused, removes it and adds no slot; an
\* alloc right after an effective free(A) returns A's position, A stays
\* invalid, the new handle is valid and A never reads the new value.
C10_LifoReuse ==
    [][/\ res'.op = "free" =>
              \A h \in {res'.h} :
                  (Free(h) /\ exists(h)) => freelist' = Append(freelist, h.index)
       /\ res'.op = "alloc" =>
              \A data \in {res'.val} :
                  (Alloc(data) /\ freelist # <<>>) =>
                      /\ res'.h.index = freelist[Len(freelist)]
                      /\ freelist' = SubSeq(freelist, 1, Len(freelist) - 1)
                      /\ Len(vec') = Len(vec)
                      /\ (res.op = "free" /\ res.out = "freed") =>
                             \A a \in {res.h} :
                                 /\ res'.h.index = a.index
                                 /\ (~exists(a))'
                                 /\ exists(res.h)'
                                 /\ (get_ref(a) = None)']_vars

\* alloc has just reused a slot while another freed position stays listed
C10_Witness ==
    /\ res.op = "alloc"
    /\ res.h.generation > 0
    /\ freelist # <<>>
    /\ exists(res.h)
FreeListHas(i) == \E k \in 1..Len(freelist) : freelist[k] = i

ValidIssued(i) == \E h \in issued : h.index = i /\ exists(h)

\* C11 (Parity invariant): a slot with an even generation holds a live value
\* (not on the free list, a valid issued handle exists) and a slot with an odd
\* generation is empty (on the free list, no valid issued handle).
C11_ParityInvariant ==
    \A i \in 0..(Len(vec) - 1) :
        IF (vec[i + 1].generation % 2) = 0
        THEN ~FreeListHas(i) /\ ValidIssued(i)
        ELSE FreeListHas(i) /\ ~ValidIssued(i)

\* C12 (Generation monotonicity): a slot's generation never decreases; an
\* appended slot starts at 0; a free that takes effect adds exactly 1 to its
\* slot; every other operation leaves every generation unchanged.
C12_GenerationMonotone ==
    [][/\ Len(vec') >= Len(vec)
       /\ \A i \in 1..Len(vec) : vec'[i].generation >= vec[i].generation
       /\ \A i \in (Len(vec) + 1)..Len(vec') : vec'[i].generation = 0
       /\ IF res'.op = "free" /\ res'.out = "freed"
          THEN \A i \in 1..Len(vec) :
                   vec'[i].generation =
                       IF i = res'.h.index + 1 THEN vec[i].generation + 1
                                               ELSE vec[i].generation
          ELSE \A i \in 1..Len(vec) : vec'[i].generation = vec[i].generation]_vars

\* a free has just taken effect on a reused slot, which reaches generation 2
C12_Witness ==
    /\ res.op = "free"
    /\ res.out = "freed"
    /\ res.h.generation = 1
    /\ vec[res.h.index + 1].generation = 2
\* C13 (Iteration without slot reuse): while no slot has been reused (every
\* handle alloc returned has generation 0: the allocations came first, then
\* frees of any subset), iter() yields exactly the values of the handles that
\* were not freed, in allocation order.
C13_IterNoReuse ==
    (res.op = "iter" /\ \A h \in issued : h.generation = 0) =>
        /\ res.seq = LiveValues
        /\ \A h \in freed : ~exists(h)
        /\ Len(res.seq) = Cardinality(issued \ freed)

\* iter has run after two allocations and a free of the first handle
C13_Witness ==
    /\ res.op = "iter"
    /\ \A h \in issued : h.generation = 0
    /\ Cardinality(issued) >= 2
    /\ EntryHandle(0, 0) \in freed
    /\ Len(res.seq) = Cardinality(issued) - 1

RECURSIVE EvenValuesFrom(_)
EvenValuesFrom(i) ==
    IF i > Len(vec) THEN <<>>
    ELSE IF (vec[i].generation \div 2) * 2 = vec[i].generation
         THEN <<vec[i].data>> \o EvenValuesFrom(i + 1)
         ELSE EvenValuesFrom(i + 1)

\* C15 (Iteration is driven by parity): iter() and iter_mut() yield, in
\* ascending position order, the value of exactly the slots whose stored
\* generation is even, whether or not the slot is on the free list.
C15_IterByParity ==
    /\ res.op \in {"iter", "iter_mut"} => res.seq = EvenValuesFrom(1)
    /\ iter = EvenValuesFrom(1)
    /\ iter_mut = EvenValuesFrom(1)

\* iter_mut has yielded a freed slot of generation 2 and skipped a live slot
\* of generation 1
C15_Witness ==
    /\ res.op = "iter_mut"
    /\ \E i, j \in 0..(Len(vec) - 1) :
          /\ vec[i + 1].generation = 2 /\ FreeListHas(i)
          /\ vec[j + 1].generation = 1 /\ ValidIssued(j)
    /\ Len(res.seq) = 1
\* C16 (Growth only on an empty free list): alloc appends a slot (at the
\* previous slot count, generation 0, the given value) iff the free list is
\* empty; the slot count never decreases; alloc leaves the generation and
\* value of every slot but the returned one unchanged.
C16_GrowthOnlyWhenEmpty ==
    [][/\ Len(vec') >= Len(vec)
       /\ res'.op = "alloc" =>
              \A data \in {res'.val} :
                  Alloc(data) =>
                      /\ (Len(vec') = Len(vec) + 1) <=> (freelist = <<>>)
                      /\ (Len(vec') = Len(vec)) <=> (freelist # <<>>)
                      /\ freelist = <<>> =>
                             /\ res'.h = EntryHandle(0, Len(vec))
                             /\ vec'[Len(vec) + 1] = GenVecEntry(0, data)
                      /\ \A i \in 1..Len(vec) :
                             i # res'.h.index + 1 => vec'[i] = vec[i]]_vars

\* alloc has just appended a second slot after the first was freed and reused
C16_Witness ==
    /\ res.op = "alloc"
    /\ res.h = EntryHandle(0, 1)
    /\ vec[1].generation >= 1
    /\ freelist = <<>>

\* C17 (Frame of an effective free): a matching free(h) adds 1 to the
\* generation of h's slot and appends h's position to the free list; the
\* slot's value, every other slot, the slot count and the earlier free-list
\* entries are unchanged, and every other valid handle stays valid with the
\* same value.
C17_FreeFrame ==
    [][res'.op = "free" =>
          \A h \in {res'.h} :
              (Free(h) /\ exists(h)) =>
                  /\ Len(vec') = Len(vec)
                  /\ vec'[h.index + 1].data = vec[h.index + 1].data
                  /\ vec'[h.index + 1].generation = vec[h.index + 1].generation + 1
                  /\ \A i \in 1..Len(vec) : i # h.index + 1 => vec'[i] = vec[i]
                  /\ freelist' = Append(freelist, h.index)
                  /\ \A h2 \in issued :
                         (h2 # h /\ exists(h2)) =>
                             /\ exists(h2)'
                             /\ get_ref(h2)' = get_ref(h2)]_vars

\* a free has just taken effect on a reused slot while the handle of another
\* slot is valid
C17_Witness ==
    /\ res.op = "free"
    /\ res.out = "freed"
    /\ res.h.generation >= 1
    /\ freelist[Len(freelist)] = res.h.index
    /\ \E h2 \in issued : h2.index # res.h.index /\ exists(h2)

\* C18 (Free-list / liveness partition): with handles issued by this arena,
\* every free-list entry is a position within the slots, no position occurs
\* twice, a position is listed iff no issued handle is valid for it, and the
\* slot count is the number of valid issued handles plus the list's length.
C18_FreeListPartition ==
    /\ \A k \in 1..Len(freelist) : freelist[k] \in 0..(Len(vec) - 1)
    /\ NoDuplicates(freelist)
    /\ \A i \in 0..(Len(vec) - 1) : FreeListHas(i) <=> ~ValidIssued(i)
    /\ Len(vec) = Cardinality({h \in issued : exists(h)}) + Len(freelist)

\* one slot is free after two frees, the other is live after a reuse
C18_Witness ==
    /\ Len(vec) = 2
    /\ Len(freelist) = 1
    /\ \E h \in issued : exists(h) /\ h.generation = 1
    /\ \E i \in 1..2 : vec[i].generation = 2 /\ FreeListHas(i - 1)

\* C19 (Handle uniqueness): a handle returned by alloc differs from every
\* handle an earlier alloc returned, and at most one issued handle per
\* position is valid.
C19_HandleUnique ==
    [][/\ res'.op = "alloc" =>
              \A data \in {res'.val} : Alloc(data) => res'.h \notin issued
       /\ (vec' # vec \/ issued' # issued) =>
              \A h1, h2 \in issued' :
                  (h1.index = h2.index /\ exists(h1)' /\ exists(h2)') => h1 = h2]_vars

\* alloc has just returned a third handle for one position
C19_Witness ==
    /\ res.op = "alloc"
    /\ Cardinality({h \in issued : h.index = res.h.index}) >= 3
    /\ exists(res.h)

ReadOps == {"exists", "index_ref", "index_mut", "index_copy",
            "get_ref", "get_mut", "get_copy", "iter", "iter_mut"}

\* For a position within the slots the seven accessors agree.
AccessorsAgree(h) ==
    /\ exists(h) <=> get_ref(h).out = "Some"
    /\ exists(h) <=> get_mut(h).out = "Some"
    /\ exists(h) <=> get_copy(h).out = "Some"
    /\ exists(h) <=> index_ref(h).out # "panic"
    /\ exists(h) <=> index_mut(h).out # "panic"
    /\ exists(h) <=> index_copy(h).out # "panic"
    /\ ~exists(h) =>
           get_ref(h) = None /\ get_mut(h) = None /\ get_copy(h) = None
    /\ exists(h) =>
           \A r \in {get_ref(h), get_mut(h), get_copy(h),
                     index_ref(h), index_mut(h), index_copy(h)} :
               r = Some(vec[h.index + 1].data)

\* C20 (Accessor agreement): for every handle whose position is within the
\* slots, exists(h) iff get_ref/get_mut/get_copy are present iff
\* index_ref/index_mut/index_copy do not panic, all with the same stored
\* value; no read accessor changes a generation, a value or the free list.
C20_AccessorAgreement ==
    [][/\ vec' # vec =>
              \A h \in Handles : InBounds(h.index)' => AccessorsAgree(h)'
       /\ res'.op \in ReadOps => UNCHANGED <<vec, freelist>>]_vars

\* index_copy has returned a value while another handle of the slot is stale
C20_Witness ==
    /\ res.op = "index_copy"
    /\ res.out = "Some"
    /\ res.val = vec[res.h.index + 1].data
    /\ \E h \in freed : h.index = res.h.index /\ get_copy(h) = None
====
